---- MODULE Spec2Model ----
(***************************************************************************)
(* SSH tunnel and port-redirection lifecycle of src/plugin/LHUB.py.         *)
(*                                                                         *)
(* Text (config values, command lines, process-table lines, interface      *)
(* listings) is a sequence of lexemes.  A lexeme is a string that holds no *)
(* whitespace and no colon, or it is the single blank SP or the single     *)
(* colon COLON.  An f-string is a concatenation (\o), a substring test is  *)
(* a test for a contiguous subsequence, and the regular expressions of the *)
(* source are evaluated over the lexemes.                                  *)
(*                                                                         *)
(* One plugin invocation is one OS process running main() once.  Every     *)
(* external command it runs is one step; the Python code between two       *)
(* commands belongs to the step of the command before it.                  *)
(***************************************************************************)
EXTENDS Integers, Sequences, FiniteSets, TLC

VARIABLES
    procs,      \* OS process table: pid -> command line (lexemes)
    connecting, \* pids of ssh processes that have not yet set up their forward
    aliases,    \* addresses bound to the loopback interface
    rules,      \* active packet-filter redirect rules (the default set has none)
    inv,        \* the plugin invocations: slot -> invocation record
    prev,       \* history: the invocation before the one in slot 1, if its commands all succeeded
    runs,       \* history: number of invocations started
    exits       \* history: number of tunnel processes that ended on their own

vars == <<procs, connecting, aliases, rules, inv, prev, runs, exits>>

-----------------------------------------------------------------------------
(* Bounds *)

MaxRuns == 2
MaxExits == 1

-----------------------------------------------------------------------------
(* Lexemes *)

SP == " "
COLON == ":"

Inv == {1, 2}

\* The pids the OS hands out, in the order `ps` lists them.
PidOrder == <<"111", "222", "333", "4444", "55555">>
Pids == {PidOrder[n] : n \in 1..Len(PidOrder)}

\* The lexemes that consist of digits only (\d+ matches the whole lexeme).
DigitLex == Pids \cup {"501", "10", "22", "2222", "5432", "8080", "9090", "80", "9000"}

\* The lexemes in which the text "ssh" occurs, and those in which "-L" occurs.
SshBearing == {"ssh", "/usr/sbin/sshd", "alice@sshgate"}
DashLBearing == {"-L", "/opt/x-Lab/key"}
\* The lexemes that end in "-f".
EndsDashF == {"-f", "--no-f"}

IsDigits(x) == x \in DigitLex

\* t occurs in s as a contiguous subsequence starting at position i.
SubseqAt(s, i, t) ==
    /\ i >= 1
    /\ i + Len(t) - 1 <= Len(s)
    /\ \A j \in 1..Len(t) : s[i + j - 1] = t[j]

\* Python `t in s` for strings.
Contains(s, t) == \E i \in 1..(Len(s) + 1) : SubseqAt(s, i, t)

\* Python str.strip(): leading and trailing blanks removed.
RECURSIVE StripLeft(_)
StripLeft(s) == IF s # <<>> /\ Head(s) = SP THEN StripLeft(Tail(s)) ELSE s

RECURSIVE StripRight(_)
StripRight(s) ==
    IF s # <<>> /\ s[Len(s)] = SP THEN StripRight(SubSeq(s, 1, Len(s) - 1)) ELSE s

Strip(s) == StripRight(StripLeft(s))

\* dict.get(key): the value, and whether it is truthy (present and not empty).
Has(cfg, key) == key \in DOMAIN cfg
Truthy(cfg, key) == Has(cfg, key) /\ cfg[key] # <<>>
GetOr(cfg, key, default) == IF Truthy(cfg, key) THEN cfg[key] ELSE default

-----------------------------------------------------------------------------
(* Addresses, ports, configurations *)

Lo1 == <<"127.", "0.0.1">>
Lo2 == <<"127.", "0.0.2">>
Lo3 == <<"127.", "0.0.3">>
Lo9 == <<"127.", "0.0.9">>
Ext5 == <<"10.", "0.0.5">>
Ext7 == <<"10.", "0.0.7">>
Ext9 == <<"10.", "0.0.9">>

local_user == <<"chad">>
default_ssh_key == <<"/home/.ssh/id_rsa">>
loopback_interface == <<"lo0">>

BaseTunnel ==
    [type |-> <<"ssh">>, name |-> <<"db">>,
     local_address |-> Lo2, local_port |-> <<"5432">>,
     remote_ip |-> Ext5, remote_port |-> <<"5432">>,
     ssh_server |-> <<"bastion.example.com">>,
     ssh_user |-> <<"alice">>, ssh_key |-> <<"/keys/id">>]

\* An optional_exit_message as the configuration file holds it, with an
\* escaped line break.
ExitMessage == <<"Use", SP, "the", SP, "forwarded", SP, "port", "\\n">>

With(cfg, key, val) == [k \in DOMAIN cfg \cup {key} |-> IF k = key THEN val ELSE cfg[k]]
Without(cfg, keys) == [k \in DOMAIN cfg \ keys |-> cfg[k]]

\* The tunnel sections of the user's configuration file.
TunnelConfigs ==
    { BaseTunnel,
      Without(BaseTunnel, {"local_port"}),
      With(BaseTunnel, "name", <<>>),
      Without(BaseTunnel, {"ssh_server"}),
      Without(BaseTunnel, {"remote_ip"}),
      Without(BaseTunnel, {"remote_port"}),
      Without(BaseTunnel, {"remote_port", "local_port"}),
      Without(BaseTunnel, {"local_address"}),
      Without(With(BaseTunnel, "name", <<>>), {"remote_ip"}),
      Without(BaseTunnel, {"ssh_server", "local_address"}),
      With(BaseTunnel, "ssh_server", Lo9),
      With(With(BaseTunnel, "ssh_server", Lo9), "ssh_port", <<"22">>),
      With(With(BaseTunnel, "ssh_server", Lo9), "ssh_port", <<"2222">>),
      With(BaseTunnel, "local_address", Lo1),
      With(BaseTunnel, "local_address", Ext9),
      With(BaseTunnel, "optional_exit_message", ExitMessage) }

BaseRedirect ==
    [type |-> <<"redirect">>, name |-> <<"web">>,
     source_address |-> Lo2, source_port |-> <<"8080">>,
     target_address |-> Ext7, target_port |-> <<"80">>]

\* The redirect sections of the user's configuration file.
RedirectConfigs ==
    { BaseRedirect,
      With(BaseRedirect, "source_port", <<"9090">>),
      Without(BaseRedirect, {"source_address"}),
      With(BaseRedirect, "target_port", <<SP>>),
      With(BaseRedirect, "source_address", Lo1),
      With(BaseRedirect, "source_address", Ext9),
      With(BaseRedirect, "optional_exit_message", ExitMessage) }

NoConfig == [type |-> <<>>]

-----------------------------------------------------------------------------
(* The process table as `ps -ef` prints it *)

\* The blanks that right-align a pid in its column of five characters.
PidPadding(pid) ==
    CASE pid = "55555" -> <<>>
      [] pid = "4444" -> <<SP>>
      [] OTHER -> <<SP, SP>>

\* One line of `ps -ef`: UID and PID, both right-aligned, a start time, the command.
PsLine(pid, cmd) ==
    <<SP, SP, "501", SP>> \o PidPadding(pid) \o <<pid, SP, "10", COLON, "32AM", SP>> \o cmd

RECURSIVE PsLinesFrom(_, _)
PsLinesFrom(table, n) ==
    IF n > Len(PidOrder) THEN <<>>
    ELSE (IF PidOrder[n] \in DOMAIN table
             THEN <<PsLine(PidOrder[n], table[PidOrder[n]])>>
             ELSE <<>>) \o PsLinesFrom(table, n + 1)

\* _cmd_result.stdout.split('\n')
PsOutput(table) == PsLinesFrom(table, 1)

\* The first position from n on that holds no blank (Len(line) + 1 if none).
RECURSIVE SkipBlanks(_, _)
SkipBlanks(line, n) ==
    IF n <= Len(line) /\ line[n] = SP THEN SkipBlanks(line, n + 1) ELSE n

\* pid_pattern = ^\s*\d+\s+(\d+): the position of the group, 0 without a match.
PidPosition(line) ==
    LET first == SkipBlanks(line, 1)
        second == SkipBlanks(line, first + 1)
    IN  IF /\ first <= Len(line) /\ IsDigits(line[first])
           /\ first + 1 <= Len(line) /\ line[first + 1] = SP
           /\ second <= Len(line) /\ IsDigits(line[second])
        THEN second ELSE 0

PidPatternMatch(line) == PidPosition(line) # 0

\* int(pid_pattern.findall(_line)[0])
PidOf(line) == line[PidPosition(line)]

\* specific_loopback: "<ip>:" or "<ip>:<port>:", and ":" when there is no ip.
\* (None stands for an argument that was not passed.)
None == <<>>
SpecificLoopback(loopback_ip, loopback_port) ==
    (IF loopback_ip # None THEN Strip(loopback_ip) ELSE <<>>) \o <<COLON>>
        \o (IF loopback_port # None THEN loopback_port \o <<COLON>> ELSE <<>>)

HasLexIn(line, bearing) == \E n \in 1..Len(line) : line[n] \in bearing

\* LineSelected without its test for the forward flag.
LineSelected_NoForwardFlag(line, specific_loopback) ==
    /\ HasLexIn(line, SshBearing)
    /\ PidPatternMatch(line)
    /\ Contains(line, specific_loopback)

\* The condition of the dict comprehension that builds tunnel_PIDs.
LineSelected(line, specific_loopback) ==
    /\ HasLexIn(line, SshBearing)
    /\ HasLexIn(line, DashLBearing)
    /\ PidPatternMatch(line)
    /\ Contains(line, specific_loopback)

\* tunnel_PIDs, in the order of the listing (a dict keeps insertion order).
TunnelPIDs(table, loopback_ip, loopback_port) ==
    SelectSeq(PsOutput(table),
              LAMBDA line : LineSelected(line, SpecificLoopback(loopback_ip, loopback_port)))

\* re.findall(r"[^\s:]+:\d+(?=:|\s)", tunnel): the matches, left to right and
\* not overlapping.  A match ends at a colon at position n followed by a digit
\* lexeme that is itself followed by a colon or a blank; it starts in the run
\* of non-blank, non-colon lexemes before the colon, after the previous match.
EndpointAt(line, n, lastEnd) ==
    /\ n >= 2
    /\ n + 2 <= Len(line)
    /\ line[n] = COLON
    /\ n - 1 > lastEnd
    /\ line[n - 1] \notin {SP, COLON}
    /\ IsDigits(line[n + 1])
    /\ line[n + 2] \in {SP, COLON}

RECURSIVE RunStart(_, _, _)
RunStart(line, n, lastEnd) ==
    IF n - 1 > lastEnd /\ n - 1 >= 1 /\ line[n - 1] \notin {SP, COLON}
    THEN RunStart(line, n - 1, lastEnd)
    ELSE n

RECURSIVE EndpointsFrom(_, _, _)
EndpointsFrom(line, n, lastEnd) ==
    IF n > Len(line) THEN <<>>
    ELSE IF EndpointAt(line, n, lastEnd)
         THEN <<SubSeq(line, RunStart(line, n - 1, lastEnd), n + 1)>>
                  \o EndpointsFrom(line, n + 2, n + 1)
         ELSE EndpointsFrom(line, n + 1, lastEnd)

HostInfos(line) == EndpointsFrom(line, 1, 0)

\* re.findall(r'-f +(\S+)', tunnel): whether there is a match.
HasServerToken(line) ==
    \E n \in 1..Len(line) :
        /\ line[n] \in EndsDashF
        /\ n + 2 <= Len(line)
        /\ line[n + 1] = SP
        /\ line[n + 2] # SP

\* The two unpackings in the kill loop: "ok", or the exception they raise.
ParseTunnel(line) ==
    IF Len(HostInfos(line)) < 2 THEN "ValueError"
    ELSE IF ~HasServerToken(line) THEN "IndexError"
    ELSE "ok"

-----------------------------------------------------------------------------
(* Command lines *)

\* do_prompt_for_sudo: sudo -v -p "sudo password: "
SudoProbeCmd == <<"sudo", SP, "-v", SP, "-p", SP, "\"sudo password: \"">>
IfconfigListCmd == <<"ifconfig", SP, "-a">>
PsCmd == <<"ps", SP, "-ef">>
PfctlResetCmd == <<"sudo", SP, "pfctl", SP, "-f", SP, "/etc/pf.conf">>

\* f"sudo ifconfig {self.loopback_interface} alias ${loopback_ip}"
AliasCmd(loopback_ip) ==
    <<"sudo", SP, "ifconfig", SP>> \o loopback_interface
        \o <<SP, "alias", SP, "$">> \o loopback_ip

\* f'sudo kill -9 {PID}'
KillCmd(pid) == <<"sudo", SP, "kill", SP, "-9", SP, pid>>

\* The lexemes in which the text "-i" occurs.
DashIBearing == {"-i", "jump-inner"}

\* ssh_port: the configured text, or the integer 22 when there is none.
SshServerPort(cfg) ==
    IF Truthy(cfg, "ssh_port") THEN [type |-> "str", text |-> cfg["ssh_port"]]
    ELSE [type |-> "int", text |-> <<"22">>]

\* Python `ssh_server_port != 22`: a str never equals an int.
NotEqualInt22(port) == ~(port.type = "int" /\ port.text = <<"22">>)

LocalPort(cfg) == GetOr(cfg, "local_port", GetOr(cfg, "remote_port", None))

\* SshOptions with default options that are the key alone.
SshOptions_KeyOnly(cfg) ==
    LET ssh_key == GetOr(cfg, "ssh_key", default_ssh_key)
        given == IF Has(cfg, "ssh_options") THEN Strip(cfg["ssh_options"]) ELSE <<>>
    IN  IF given = <<>> \/ ~HasLexIn(given, DashIBearing)
        THEN <<"-i", SP>> \o ssh_key \o (IF given = <<>> THEN <<>> ELSE <<SP>> \o given)
        ELSE given

SshOptions(cfg) ==
    LET ssh_key == GetOr(cfg, "ssh_key", default_ssh_key)
        given == IF Has(cfg, "ssh_options") THEN Strip(cfg["ssh_options"]) ELSE <<>>
        default_ssh_options ==
            <<"-i", SP>> \o ssh_key \o <<SP, "-o", SP, "StrictHostKeyChecking=no">>
    IN  IF given = <<>> THEN default_ssh_options
        ELSE IF ~HasLexIn(given, DashIBearing) THEN <<"-i", SP>> \o ssh_key \o <<SP>> \o given
        ELSE given

\* ssh_command of do_execute_ssh_tunnel.
SshCommand(cfg) ==
    <<"sudo", SP, "ssh", SP>> \o SshOptions(cfg)
        \o <<SP, "-Y", SP, "-L", SP>>
        \o GetOr(cfg, "local_address", None) \o <<COLON>> \o LocalPort(cfg) \o <<COLON>>
        \o GetOr(cfg, "remote_ip", None) \o <<COLON>> \o GetOr(cfg, "remote_port", None)
        \o <<SP, "-N", SP, "-f", SP>>
        \o GetOr(cfg, "ssh_user", local_user) \o <<"@">> \o GetOr(cfg, "ssh_server", None)
        \o <<SP, "-p", SP>> \o SshServerPort(cfg).text

\* The command line of the process that `sudo ssh ... -f` leaves behind.
SshProcess(ssh_command) == SubSeq(ssh_command, 3, Len(ssh_command))

\* get_var of port_redirect_custom: (config_dict.get(var_name) or "").strip()
GetVar(cfg, var_name) == Strip(GetOr(cfg, var_name, <<>>))

\* The rule that do_execute_port_redirect pipes into pfctl.
RedirectRule(cfg) ==
    <<"rdr", SP, "pass", SP, "inet", SP, "proto", SP, "tcp", SP, "from", SP, "any", SP, "to", SP>>
        \o GetVar(cfg, "source_address") \o <<SP, "port", SP>> \o GetVar(cfg, "source_port")
        \o <<SP, "->", SP>>
        \o GetVar(cfg, "target_address") \o <<SP, "port", SP>> \o GetVar(cfg, "target_port")

PfctlLoadCmd(cfg) ==
    <<"echo", SP, "\"">> \o RedirectRule(cfg)
        \o <<"\"", SP, "|", SP, "sudo", SP, "-p", SP, "\"sudo password: \"", SP,
             "pfctl", SP, "-ef", SP, "-">>

-----------------------------------------------------------------------------
(* What the operating system does with a command *)

\* The addresses `ifconfig <if> alias <addr>` accepts.
ValidAddresses == {Lo1, Lo2, Lo3, Lo9, Ext5, Ext7, Ext9}

\* The address argument of an alias command: what follows "alias ".
AliasArgument(cmd) == SubSeq(cmd, 9, Len(cmd))

\* `ifconfig -a`: one inet line for every address of the loopback interface.
IfconfigOutput(addrs) ==
    {<<"inet", SP>> \o a \o <<SP, "netmask", SP, "0xff000000">> : a \in addrs}

\* Tunnel processes bound to ip:port, whoever started them.
BoundTo(cmd, ip, port) ==
    /\ cmd # <<>>
    /\ Head(cmd) = "ssh"
    /\ Contains(cmd, <<"-L", SP>> \o ip \o <<COLON>> \o port \o <<COLON>>)

TunnelsOn(table, ip, port) == {p \in DOMAIN table : BoundTo(table[p], ip, port)}

\* The tunnels that forward ip:port: the processes bound to it that are past
\* their connection setup (pending holds the pids that are not).
ActiveTunnelsOn(table, pending, ip, port) == TunnelsOn(table, ip, port) \ pending

\* Every process that forwards a local port.
IsForward(cmd) == cmd # <<>> /\ Head(cmd) = "ssh" /\ HasLexIn(cmd, DashLBearing)

RECURSIVE FirstFreeFrom(_, _)
FirstFreeFrom(table, n) ==
    IF n > Len(PidOrder) THEN "none"
    ELSE IF PidOrder[n] \notin DOMAIN table THEN PidOrder[n]
    ELSE FirstFreeFrom(table, n + 1)

\* The pid the next new process gets (pids of the spare range, lowest first).
SparePidsFrom == Len(PidOrder) - 1
NextPid(table) == FirstFreeFrom(table, SparePidsFrom)

-----------------------------------------------------------------------------
(* One invocation of the plugin *)

Actions == {"action_terminate_tunnels", "action_terminate_port_redirection",
            "action_terminate_all", "port_redirect_custom", "ssh_tunnel_custom"}

\* Python values: None, an int; and the mark of a call that has not returned.
PyNone == [type |-> "NoneType", value |-> 0]
PyInt(n) == [type |-> "int", value |-> n]
NotReturned == [type |-> "no value", value |-> 0]

\* argv1 is sys.argv[1], the requested action id, and action_list the ids that
\* the constructor registered.
IdleInv ==
    [pc |-> "idle", action |-> "none", cfg |-> NoConfig,
     argv1 |-> <<>>, action_list |-> {},
     tunnel_PIDs |-> <<>>, k |-> 0,
     returned |-> NotReturned,
     log |-> <<>>, notes |-> <<>>, shown |-> <<>>, cleanup |-> FALSE, exit |-> -1,
     err |-> "none"]

\* An external command that was run, its result, and the function that ran it.
Ran(r, kind, argv, rc, by) ==
    [r EXCEPT !.log = Append(@, [kind |-> kind, argv |-> argv, rc |-> rc, by |-> by])]

\* displayNotification
Notify(r, text) == [r EXCEPT !.notes = Append(@, [level |-> "info", text |-> text])]

\* displayNotificationError: the notification, then sys.exit(1).
displayNotificationError(r, text) ==
    [r EXCEPT !.notes = Append(@, [level |-> "error", text |-> text]),
              !.pc = "done", !.exit = 1, !.err = "SystemExit"]

\* An exception that nothing catches: the interpreter prints it and exits with 1.
Uncaught(r, exception) == [r EXCEPT !.pc = "done", !.exit = 1, !.err = exception]

\* The try of main() around the lookup and the call of the action:
\* except KeyError: raise Exception("Not a valid action")
MainExcept(exception) ==
    IF exception = "KeyError" THEN "Not a valid action" ELSE exception

\* An exception raised while the requested action is looked up or runs.
Raise(r, exception) == Uncaught(r, MainExcept(exception))

\* main() returns, or the action calls sys.exit().
ExitZero(r) == [r EXCEPT !.pc = "done", !.exit = 0]

\* TunnelAsserts with the required parameters checked in the reverse order.
TunnelAsserts_Reversed(cfg) ==
    IF LocalPort(cfg) = None THEN "Error: Loopback port not provided"
    ELSE IF ~Truthy(cfg, "local_address") THEN "Error: Loopback address not provided"
    ELSE IF ~Truthy(cfg, "remote_port") THEN "Error: Remote port for SSH tunnel not provided"
    ELSE IF ~Truthy(cfg, "remote_ip") THEN "Error: Remote address for SSH tunnel not provided"
    ELSE IF ~Truthy(cfg, "ssh_server") THEN "Error: SSH server address not provided"
    ELSE IF ~Truthy(cfg, "name") THEN "Error: SSH config must be given a name"
    ELSE IF ~(NotEqualInt22(SshServerPort(cfg)) \/ Head(cfg["ssh_server"]) # "127.")
         THEN "Error: SSH server is a loopback IP, and the port is left at 22"
    ELSE "ok"

\* The asserts of do_execute_ssh_tunnel, in their order: the message of the
\* first that fails, or "ok".
TunnelAsserts(cfg) ==
    IF ~Truthy(cfg, "name") THEN "Error: SSH config must be given a name"
    ELSE IF ~Truthy(cfg, "ssh_server") THEN "Error: SSH server address not provided"
    ELSE IF ~Truthy(cfg, "remote_ip") THEN "Error: Remote address for SSH tunnel not provided"
    ELSE IF ~Truthy(cfg, "remote_port") THEN "Error: Remote port for SSH tunnel not provided"
    ELSE IF ~Truthy(cfg, "local_address") THEN "Error: Loopback address not provided"
    ELSE IF LocalPort(cfg) = None THEN "Error: Loopback port not provided"
    ELSE IF ~(NotEqualInt22(SshServerPort(cfg)) \/ Head(cfg["ssh_server"]) # "127.")
         THEN "Error: SSH server is a loopback IP, and the port is left at 22"
    ELSE "ok"

\* LoopbackAsserts without the check for the primary loopback address.
LoopbackAsserts_AllowPrimary(loopback_ip, allow_all_loopback_ips) ==
    IF loopback_ip = <<>> THEN "No loopback address provided"
    ELSE IF Head(loopback_ip) # "127." THEN "Invalid loopback address"
    ELSE "ok"

\* The asserts of do_verify_loopback_address.
LoopbackAsserts(loopback_ip, allow_all_loopback_ips) ==
    IF loopback_ip = <<>> THEN "No loopback address provided"
    ELSE IF Head(loopback_ip) # "127." THEN "Invalid loopback address"
    ELSE IF ~allow_all_loopback_ips /\ loopback_ip = Lo1 THEN "Custom loopback IP is required"
    ELSE "ok"

\* The address an invocation hands to do_verify_loopback_address.
LoopbackArg(r) ==
    IF r.action = "ssh_tunnel_custom" THEN GetOr(r.cfg, "local_address", None)
    ELSE GetVar(r.cfg, "source_address")

\* AddressFound with the pattern anchored at the start of a line.
AddressFound_AtLineStart(loopback_ip, output) ==
    \E line \in output : SubseqAt(line, 1, loopback_ip)

\* re.findall(rf"\b{loopback_ip}\b", interfaces_output.stdout) is not empty.
AddressFound(loopback_ip, output) ==
    \E line \in output : \E n \in 1..Len(line) :
        /\ SubseqAt(line, n, loopback_ip)
        /\ (n = 1 \/ line[n - 1] = SP)
        /\ (n + Len(loopback_ip) > Len(line) \/ line[n + Len(loopback_ip)] = SP)

\* EnterVerifyLoopback without the asserts on the address.
EnterVerifyLoopback_Unchecked(r) == [r EXCEPT !.pc = "ifconfig"]

\* do_verify_loopback_address up to its first command.
EnterVerifyLoopback(r) ==
    LET failed == LoopbackAsserts(LoopbackArg(r), FALSE)
    IN  IF failed # "ok" THEN Raise(r, failed) ELSE [r EXCEPT !.pc = "ifconfig"]

\* AfterVerifyLoopback for a caller that goes on to its command at once.
AfterVerifyLoopback_NoTerminate(r) ==
    IF r.action = "ssh_tunnel_custom" THEN [r EXCEPT !.pc = "ssh"]
    ELSE [r EXCEPT !.pc = "pfctl_load"]

\* What follows do_verify_loopback_address in its caller.
AfterVerifyLoopback(r) ==
    IF r.action = "ssh_tunnel_custom" THEN [r EXCEPT !.pc = "ps"]
    ELSE [r EXCEPT !.pc = "pfctl_load"]

\* What follows the first do_prompt_for_sudo of an action.
AfterEntrySudo(r) ==
    CASE r.action = "ssh_tunnel_custom" ->
            (LET failed == TunnelAsserts(r.cfg)
             IN  IF failed # "ok" THEN Raise(r, failed) ELSE EnterVerifyLoopback(r))
      [] r.action = "port_redirect_custom" ->
            (IF ~Has(r.cfg, "name") THEN Raise(r, "KeyError") ELSE EnterVerifyLoopback(r))
      [] r.action = "action_terminate_all" -> [r EXCEPT !.pc = "ps"]
      [] OTHER -> [r EXCEPT !.pc = "pfctl_reset"]

\* do_terminate_tunnels returns (it has no return statement), and what
\* follows in its caller.
AfterTerminateTunnels(r) ==
    LET back == [r EXCEPT !.returned = PyNone]
    IN  CASE r.action = "ssh_tunnel_custom" -> [back EXCEPT !.pc = "ssh"]
          [] r.action = "action_terminate_all" -> [back EXCEPT !.pc = "pfctl_reset"]
          [] OTHER -> ExitZero(back)

\* NextKill for a loop that ends after its first kill.
NextKill_FirstOnly(r) ==
    IF r.k > 1
    THEN AfterTerminateTunnels(Notify(r, "Tunnels terminated"))
    ELSE LET parsed == ParseTunnel(r.tunnel_PIDs[r.k])
         IN  IF parsed # "ok" THEN Raise(r, parsed) ELSE [r EXCEPT !.pc = "kill"]

\* The kill loop before its next kill command: the line of the next PID is
\* parsed first; after the last PID the loop ends.
NextKill(r) ==
    IF r.k > Len(r.tunnel_PIDs)
    THEN AfterTerminateTunnels(Notify(r, "Tunnels terminated"))
    ELSE LET parsed == ParseTunnel(r.tunnel_PIDs[r.k])
         IN  IF parsed # "ok" THEN Raise(r, parsed) ELSE [r EXCEPT !.pc = "kill"]

\* FilterPort for a filter that takes the port from local_port alone.
FilterPort_Configured(r) ==
    IF r.action = "ssh_tunnel_custom" THEN GetOr(r.cfg, "local_port", None) ELSE None

\* The filter do_terminate_tunnels is called with.
FilterIp(r) ==
    IF r.action = "ssh_tunnel_custom" THEN GetOr(r.cfg, "local_address", None) ELSE None
FilterPort(r) == IF r.action = "ssh_tunnel_custom" THEN LocalPort(r.cfg) ELSE None

\* The first missing variable of a redirect config, in get_var order, or "ok".
RedirectVars(cfg) ==
    IF GetVar(cfg, "source_address") = <<>> THEN "source_address"
    ELSE IF GetVar(cfg, "source_port") = <<>> THEN "source_port"
    ELSE IF GetVar(cfg, "target_address") = <<>> THEN "target_address"
    ELSE IF GetVar(cfg, "target_port") = <<>> THEN "target_port"
    ELSE "ok"

\* Begin without the get_var checks of port_redirect_custom.
Begin_Unvalidated(action, cfg) ==
    LET r == [IdleInv EXCEPT !.action = action, !.cfg = cfg]
    IN  IF action = "action_terminate_tunnels" THEN [r EXCEPT !.pc = "ps"]
        ELSE [r EXCEPT !.pc = "sudo"]

\* main() up to the first command of the requested action.
Begin(action, cfg) ==
    LET r == [IdleInv EXCEPT !.action = action, !.cfg = cfg]
    IN  CASE action = "action_terminate_tunnels" -> [r EXCEPT !.pc = "ps"]
          [] action = "port_redirect_custom" ->
                (IF RedirectVars(cfg) # "ok"
                 THEN displayNotificationError(r, RedirectVars(cfg))
                 ELSE [r EXCEPT !.pc = "sudo"])
          [] OTHER -> [r EXCEPT !.pc = "sudo"]

ConfigsOf(action) ==
    CASE action = "ssh_tunnel_custom" -> TunnelConfigs
      [] action = "port_redirect_custom" -> RedirectConfigs
      [] OTHER -> {NoConfig}

-----------------------------------------------------------------------------
(* Initial states *)

\* A tunnel this plugin started earlier for the base tunnel config.
ToolTunnel == SshProcess(SshCommand(BaseTunnel))

\* A tunnel this plugin started for another config: 127.0.0.3:8080 to 127.0.0.2:5432.
OtherTunnel ==
    SshProcess(SshCommand(
        [BaseTunnel EXCEPT !.local_address = Lo3, !.local_port = <<"8080">>,
                           !.remote_ip = Lo2]))

\* An interactive session a user opened: ssh -L 127.0.0.2:5432:10.0.0.5:5432 bastion.example.com
InteractiveForward ==
    <<"ssh", SP, "-L", SP>> \o Lo2 \o <<COLON, "5432", COLON>> \o Ext5
        \o <<COLON, "5432", SP, "bastion.example.com">>

\* A forward without a bind address: ssh -N -L 5432:10.0.0.5:5432 -f bastion.example.com
PortOnlyForward ==
    <<"ssh", SP, "-N", SP, "-L", SP, "5432", COLON>> \o Ext5
        \o <<COLON, "5432", SP, "-f", SP, "bastion.example.com">>

SshDaemon == <<"/usr/sbin/sshd">>

Absent == <<>>

TableOf(a, b, c) ==
    LET row == [p \in {"111", "222", "333"} |->
                    IF p = "111" THEN a ELSE IF p = "222" THEN b ELSE c]
    IN  [p \in {q \in DOMAIN row : row[q] # Absent} |-> row[p]]

InitTables ==
    { TableOf(a, b, c) :
        a \in {Absent, ToolTunnel, InteractiveForward},
        b \in {Absent, ToolTunnel, PortOnlyForward},
        c \in {OtherTunnel, SshDaemon} }

NoPrev == [action |-> "none", cfg |-> NoConfig]

Init ==
    /\ procs \in InitTables
    /\ connecting = {}
    /\ aliases \in {{Lo1}, {Lo1, Lo2}}
    /\ rules = {}
    /\ inv = [i \in Inv |-> IdleInv]
    /\ prev = NoPrev
    /\ runs = 0
    /\ exits = 0

-----------------------------------------------------------------------------
(* Steps *)

Clean(r) == \A n \in 1..Len(r.log) : r.log[n].rc = "ok"

\* What is remembered of a completed invocation: the action and the config of
\* a tunnel or redirect invocation whose config passed the checks and whose
\* external commands all succeeded.
Summary(r) ==
    IF /\ Clean(r)
       /\ \/ r.action = "ssh_tunnel_custom" /\ TunnelAsserts(r.cfg) = "ok"
          \/ r.action = "port_redirect_custom" /\ RedirectVars(r.cfg) = "ok"
    THEN [action |-> r.action, cfg |-> r.cfg]
    ELSE NoPrev

\* The function whose do_prompt_for_sudo call an invocation is at.
SudoCaller(r) ==
    CASE r.pc = "alias_sudo" -> "do_verify_loopback_address"
      [] r.pc = "kill_sudo" -> "do_terminate_tunnels"
      [] r.action = "ssh_tunnel_custom" -> "do_execute_ssh_tunnel"
      [] OTHER -> r.action

\* main(): the menu hands over a registered action id.
Start(i, action, cfg) ==
    /\ inv[i].pc \in {"idle", "done"}
    /\ runs < MaxRuns
    /\ inv' = [inv EXCEPT ![i] = Begin(action, cfg)]
    /\ prev' = IF i = 1 /\ inv[i].pc = "done" THEN Summary(inv[i]) ELSE prev
    /\ runs' = runs + 1
    /\ UNCHANGED <<procs, connecting, aliases, rules, exits>>

\* PromptForSudo for a probe whose exit status is not tested.
PromptForSudo_Untested(i, rc) ==
    /\ inv[i].pc \in {"sudo", "alias_sudo", "kill_sudo"}
    /\ LET r == Ran(inv[i], "sudo_probe", SudoProbeCmd, rc, SudoCaller(inv[i]))
       IN  inv' = [inv EXCEPT ![i] =
                CASE inv[i].pc = "sudo" -> AfterEntrySudo(r)
                  [] inv[i].pc = "alias_sudo" -> [r EXCEPT !.pc = "alias_add"]
                  [] OTHER -> NextKill([r EXCEPT !.k = 1])]
    /\ UNCHANGED <<procs, connecting, aliases, rules, prev, runs, exits>>

\* do_prompt_for_sudo: the user authenticates, or does not.
PromptForSudo(i, rc) ==
    /\ inv[i].pc \in {"sudo", "alias_sudo", "kill_sudo"}
    /\ LET r == Ran(inv[i], "sudo_probe", SudoProbeCmd, rc, SudoCaller(inv[i]))
       IN  inv' = [inv EXCEPT ![i] =
                IF rc # "ok" THEN Raise(r, "CalledProcessError")
                ELSE CASE inv[i].pc = "sudo" -> AfterEntrySudo(r)
                       [] inv[i].pc = "alias_sudo" -> [r EXCEPT !.pc = "alias_add"]
                       [] OTHER -> NextKill([r EXCEPT !.k = 1])]
    /\ UNCHANGED <<procs, connecting, aliases, rules, prev, runs, exits>>

\* do_verify_loopback_address: ifconfig -a and the search for the address.
ListInterfaces(i) ==
    /\ inv[i].pc = "ifconfig"
    /\ LET r == Ran(inv[i], "ifconfig_list", IfconfigListCmd, "ok", "do_verify_loopback_address")
           loopback_ip == Strip(LoopbackArg(inv[i]))
       IN  inv' = [inv EXCEPT ![i] =
                IF AddressFound(loopback_ip, IfconfigOutput(aliases))
                THEN AfterVerifyLoopback(r)
                ELSE [r EXCEPT !.pc = "alias_sudo"]]
    /\ UNCHANGED <<procs, connecting, aliases, rules, prev, runs, exits>>

\* do_verify_loopback_address: the alias command.
AddAlias(i) ==
    /\ inv[i].pc = "alias_add"
    /\ LET cmd == AliasCmd(Strip(LoopbackArg(inv[i])))
           accepted == AliasArgument(cmd) \in ValidAddresses
           r == Ran(inv[i], "ifconfig_alias", cmd, IF accepted THEN "ok" ELSE "nonzero",
                    "do_verify_loopback_address")
       IN  /\ aliases' = IF accepted THEN aliases \cup {AliasArgument(cmd)} ELSE aliases
           /\ inv' = [inv EXCEPT ![i] =
                IF accepted THEN AfterVerifyLoopback(r) ELSE Raise(r, "CalledProcessError")]
    /\ UNCHANGED <<procs, connecting, rules, prev, runs, exits>>

\* do_terminate_tunnels: ps -ef and the selection of the tunnel lines.
ListProcesses(i) ==
    /\ inv[i].pc = "ps"
    /\ LET r == Ran(inv[i], "ps", PsCmd, "ok", "do_terminate_tunnels")
           tunnel_PIDs == TunnelPIDs(procs, FilterIp(inv[i]), FilterPort(inv[i]))
       IN  inv' = [inv EXCEPT ![i] =
                IF tunnel_PIDs = <<>>
                THEN AfterTerminateTunnels(Notify(r, "No existing SSH tunnels found"))
                ELSE [r EXCEPT !.tunnel_PIDs = tunnel_PIDs, !.pc = "kill_sudo"]]
    /\ UNCHANGED <<procs, connecting, aliases, rules, prev, runs, exits>>

\* do_terminate_tunnels: sudo kill -9 of the next PID.  The command fails when
\* the process is gone.
Kill(i) ==
    /\ inv[i].pc = "kill"
    /\ LET PID == PidOf(inv[i].tunnel_PIDs[inv[i].k])
           alive == PID \in DOMAIN procs
           r == Ran(inv[i], "kill", KillCmd(PID), IF alive THEN "ok" ELSE "nonzero",
                    "do_terminate_tunnels")
       IN  /\ procs' = [p \in DOMAIN procs \ {PID} |-> procs[p]]
           /\ connecting' = connecting \ {PID}
           /\ inv' = [inv EXCEPT ![i] =
                IF alive THEN NextKill([r EXCEPT !.k = @ + 1])
                ELSE Raise(r, "CalledProcessError")]
    /\ UNCHANGED <<aliases, rules, prev, runs, exits>>

\* do_execute_ssh_tunnel: the ssh command, 60 s at most.  ssh goes to the
\* background once its forward is set up, and the command returns; when it
\* fails no process stays; when the wait times out subprocess.run kills its
\* child, the sudo process, and the ssh process under it, which has not set up
\* its forward, may or may not end with it.
RunSsh(i, rc, survives) ==
    /\ inv[i].pc = "ssh"
    /\ rc = "ok" => NextPid(procs) # "none"
    /\ survives => rc = "timeout" /\ NextPid(procs) # "none"
    /\ LET cmd == SshCommand(inv[i].cfg)
           r == Ran(inv[i], "ssh", cmd, rc, "do_execute_ssh_tunnel")
       IN  /\ procs' = IF rc = "ok" \/ survives
                       THEN [p \in DOMAIN procs \cup {NextPid(procs)} |->
                                IF p \in DOMAIN procs THEN procs[p] ELSE SshProcess(cmd)]
                       ELSE procs
           /\ connecting' = IF survives THEN connecting \cup {NextPid(procs)} ELSE connecting
           /\ inv' = [inv EXCEPT ![i] =
                CASE rc = "ok" -> ExitZero(r)
                  [] rc = "timeout" -> Raise(r, "TimeoutExpired")
                  [] OTHER -> Raise(r, "CalledProcessError")]
    /\ UNCHANGED <<aliases, rules, prev, runs, exits>>

\* optional_exit_message.replace("\\n", "\n").replace("\\t", "\t")
EscapesReplaced(text) ==
    [n \in DOMAIN text |->
        CASE text[n] = "\\n" -> "\n"
          [] text[n] = "\\t" -> "\t"
          [] OTHER -> text[n]]

\* The end of port_redirect_custom: the exit message of the config, if it has one.
ShowExitMessage(r) ==
    IF Truthy(r.cfg, "optional_exit_message")
    THEN [r EXCEPT !.shown = EscapesReplaced(r.cfg["optional_exit_message"])]
    ELSE r

\* LoadedRules for a load that adds to the active rules.
LoadedRules_Additive(active, rule) == active \cup {rule}

\* What `pfctl -ef -` does to the active rules when it succeeds.
LoadedRules(active, rule) == {rule}

\* do_execute_port_redirect: the rule piped into pfctl; the exit status of the
\* pipe is not looked at.  Back in port_redirect_custom the exit message of
\* the config is printed.
LoadRedirect(i, rc) ==
    /\ inv[i].pc = "pfctl_load"
    /\ LET r == Ran(inv[i], "pfctl_load", PfctlLoadCmd(inv[i].cfg), rc, "do_execute_port_redirect")
       IN  /\ rules' = IF rc = "ok" THEN LoadedRules(rules, RedirectRule(inv[i].cfg)) ELSE rules
           /\ inv' = [inv EXCEPT ![i] =
                ExitZero(ShowExitMessage(Notify(r, "Port Redirection Enabled")))]
    /\ UNCHANGED <<procs, connecting, aliases, prev, runs, exits>>

\* ReloadedRules for a reload that keeps the redirects loaded before.
ReloadedRules_Kept(active) == active

\* What `pfctl -f /etc/pf.conf` does to the active redirect rules when it
\* succeeds: the persisted rule set holds none.
ReloadedRules(active) == {}

\* do_terminate_port_redirection: pfctl -f /etc/pf.conf; for action_terminate_all
\* the no-op do_terminate_loopback_aliases and sys.exit() follow.
ResetRedirect(i, rc) ==
    /\ inv[i].pc = "pfctl_reset"
    /\ LET r == Ran(inv[i], "pfctl_reset", PfctlResetCmd, rc, "do_terminate_port_redirection")
       IN  /\ rules' = IF rc = "ok" THEN ReloadedRules(rules) ELSE rules
           /\ inv' = [inv EXCEPT ![i] =
                IF rc = "ok"
                THEN ExitZero([Notify(r, "Port redirection terminated")
                                  EXCEPT !.cleanup = (r.action = "action_terminate_all")])
                ELSE Raise(r, "CalledProcessError")]
    /\ UNCHANGED <<procs, connecting, aliases, prev, runs, exits>>

\* The environment: a forwarding ssh process ends on its own.  An invocation
\* sees the process table when it lists it and when it kills, so only the end
\* of a process that an invocation has listed and not yet killed is modelled.
TunnelExits(pid) ==
    /\ pid \in DOMAIN procs
    /\ IsForward(procs[pid])
    /\ exits < MaxExits
    /\ \E i \in Inv :
           /\ inv[i].pc \in {"kill_sudo", "kill"}
           /\ \E n \in 1..Len(inv[i].tunnel_PIDs) :
                  n >= inv[i].k /\ PidOf(inv[i].tunnel_PIDs[n]) = pid
    /\ procs' = [p \in DOMAIN procs \ {pid} |-> procs[p]]
    /\ connecting' = connecting \ {pid}
    /\ exits' = exits + 1
    /\ UNCHANGED <<aliases, rules, inv, prev, runs>>

\* The environment: an ssh process that outlived the timeout of its command
\* sets up its forward after all.
Connects(pid) ==
    /\ pid \in connecting
    /\ connecting' = connecting \ {pid}
    /\ UNCHANGED <<procs, aliases, rules, inv, prev, runs, exits>>

\* One invocation at a time (the menu runs one action to completion).
Next ==
    \/ \E action \in Actions : \E cfg \in ConfigsOf(action) : Start(1, action, cfg)
    \/ \E rc \in {"ok", "nonzero"} : PromptForSudo(1, rc)
    \/ ListInterfaces(1)
    \/ AddAlias(1)
    \/ ListProcesses(1)
    \/ Kill(1)
    \/ \E rc \in {"ok", "nonzero", "timeout"} : \E survives \in BOOLEAN : RunSsh(1, rc, survives)
    \/ \E rc \in {"ok", "nonzero"} : LoadRedirect(1, rc)
    \/ \E rc \in {"ok", "nonzero"} : ResetRedirect(1, rc)
    \/ \E pid \in Pids : TunnelExits(pid)
    \/ \E pid \in Pids : Connects(pid)

Spec == Init /\ [][Next]_vars

-----------------------------------------------------------------------------
(* Claims C1 to C5 *)

Done(i) == inv[i].pc = "done"

KillAttempted(i, pid) ==
    \E n \in 1..Len(inv[i].log) :
        inv[i].log[n].kind = "kill" /\ inv[i].log[n].argv = KillCmd(pid)

Attempted(i, kind) == \E n \in 1..Len(inv[i].log) : inv[i].log[n].kind = kind

Failed(i, kind) ==
    \E n \in 1..Len(inv[i].log) : inv[i].log[n].kind = kind /\ inv[i].log[n].rc # "ok"

\* The invocation in slot 1 is the second of two establishTunnel calls in
\* succession with the same valid config, and no external command of either
\* call failed.
SecondOfTwo ==
    /\ inv[1].action = "ssh_tunnel_custom"
    /\ prev.action = "ssh_tunnel_custom"
    /\ prev.cfg = inv[1].cfg
    /\ Clean(inv[1])
    /\ LoopbackAsserts(GetOr(inv[1].cfg, "local_address", None), FALSE) = "ok"

\* C1: when the second of two successive establishTunnel calls with the same
\* valid config has ended, every external command of both having succeeded and
\* no tunnel having ended on its own, exactly one ssh tunnel process is bound to
\* the config's local_address:local_port.
C1_IdempotentEstablish ==
    (Done(1) /\ SecondOfTwo /\ exits = 0)
        => Cardinality(TunnelsOn(procs, inv[1].cfg["local_address"], LocalPort(inv[1].cfg))) = 1

\* C2: when terminateTunnels matched two or more processes and the kill of one
\* of them exited non-zero, a kill was still issued for every matched PID.
C2_KillIssuedForEveryMatch ==
    \A i \in Inv :
        (Done(i) /\ Len(inv[i].tunnel_PIDs) >= 2 /\ Failed(i, "kill"))
            => \A n \in 1..Len(inv[i].tunnel_PIDs) :
                   KillAttempted(i, PidOf(inv[i].tunnel_PIDs[n]))

\* The ssh server port of the config is 22 and its ssh server is a 127.x.x.x
\* address (the required parameters being there).
Port22Loopback(cfg) ==
    /\ \A key \in {"name", "ssh_server", "remote_ip", "remote_port", "local_address"} :
           Truthy(cfg, key)
    /\ SshServerPort(cfg).text = <<"22">>
    /\ Head(cfg["ssh_server"]) = "127."

\* C3: establishTunnel with a config whose ssh server port is 22 and whose ssh
\* server is a 127.x.x.x address runs no external command at all, and ends
\* with the validation error of the loopback guard.
C3_Port22LoopbackRejectedFirst ==
    \A i \in Inv :
        (inv[i].action = "ssh_tunnel_custom" /\ Port22Loopback(inv[i].cfg))
            => /\ inv[i].log = <<>>
               /\ Done(i) => inv[i].err = "Error: SSH server is a loopback IP, and the port is left at 22"

\* The required fields in the order the claim gives, with the error that names each.
RequiredInOrder ==
    << <<"name", "Error: SSH config must be given a name">>,
       <<"ssh_server", "Error: SSH server address not provided">>,
       <<"remote_ip", "Error: Remote address for SSH tunnel not provided">>,
       <<"remote_port", "Error: Remote port for SSH tunnel not provided">>,
       <<"local_address", "Error: Loopback address not provided">> >>

MissingFields(cfg) ==
    {n \in 1..Len(RequiredInOrder) : ~Truthy(cfg, RequiredInOrder[n][1])}

FirstMissingError(cfg) ==
    LET first == CHOOSE n \in MissingFields(cfg) : \A m \in MissingFields(cfg) : n <= m
    IN  RequiredInOrder[first][2]

MissingFieldCall(i) ==
    inv[i].action = "ssh_tunnel_custom" /\ MissingFields(inv[i].cfg) # {}

C5_MalformedLineSkipped ==
    \A i \in Inv :
        (Done(i) /\ Clean(inv[i]) /\ inv[i].k >= 1)
            => \A n \in 1..Len(inv[i].tunnel_PIDs) :
                   ParseTunnel(inv[i].tunnel_PIDs[n]) = "ok"
                       => KillAttempted(i, PidOf(inv[i].tunnel_PIDs[n]))

-----------------------------------------------------------------------------
(* Claims C6 to C10 *)

LastEntry(i) == inv[i].log[Len(inv[i].log)]

\* The invocation has ended and its last command was a pfctl load that exited zero.
RedirectLoaded(i) ==
    /\ Done(i)
    /\ inv[i].action = "port_redirect_custom"
    /\ inv[i].log # <<>>
    /\ LastEntry(i).kind = "pfctl_load"
    /\ LastEntry(i).rc = "ok"

\* C6: once an establishRedirect call has loaded its rule (its firewall-control
\* command exited zero), the active redirect rules are exactly that one rule,
\* whatever rules were active before the call.
C6_RedirectReplacesRules ==
    \A i \in Inv : RedirectLoaded(i) => rules = {RedirectRule(inv[i].cfg)}

\* C6 witness: a redirect was loaded while the rule of an earlier, different
\* redirect was active, and only the later rule is active.
C6_Witness ==
    /\ RedirectLoaded(1)
    /\ prev.action = "port_redirect_custom"
    /\ LoopbackAsserts(GetVar(prev.cfg, "source_address"), FALSE) = "ok"
    /\ RedirectRule(prev.cfg) # RedirectRule(inv[1].cfg)
    /\ rules = {RedirectRule(inv[1].cfg)}

\* C7: when resetAllNetworking has ended, a failed kill was followed by an
\* attempt to reload the firewall ruleset, and a failed reload by the loopback
\* alias cleanup.
C7_ResetAllBestEffort ==
    \A i \in Inv :
        (Done(i) /\ inv[i].action = "action_terminate_all")
            => /\ Failed(i, "kill") => Attempted(i, "pfctl_reset")
               /\ Failed(i, "pfctl_reset") => inv[i].cleanup

ErrorNotified(i) ==
    \E n \in 1..Len(inv[i].notes) : inv[i].notes[n].level = "error"

\* C8: an invocation of a tunnel, redirect or terminate action ends either with
\* exit code 0 and no failed command, or with exit code 1 and an error
\* notification.
C8_ExitZeroOrNotifiedFailure ==
    \A i \in Inv :
        Done(i) => \/ inv[i].exit = 0 /\ Clean(inv[i])
                   \/ inv[i].exit = 1 /\ ErrorNotified(i)

\* The address the invocation verifies is bound to the loopback interface.
AlreadyAliased(i) == Strip(LoopbackArg(inv[i])) \in aliases

\* C9: when ensureLoopbackAlias lists the interfaces and the requested address
\* is bound already, it returns to its caller having run nothing but the
\* listing and leaves the aliases as they are; the elevation and the alias
\* command of ensureLoopbackAlias are only reached from a listing that lacks the
\* address.
C9_AliasIdempotent ==
    [][\A i \in Inv :
          /\ (inv[i].pc = "ifconfig" /\ inv'[i].pc # "ifconfig" /\ AlreadyAliased(i))
                => /\ inv'[i].pc \in {"ps", "pfctl_load"}
                   /\ inv'[i].err = "none"
                   /\ aliases' = aliases
                   /\ Len(inv'[i].log) = Len(inv[i].log) + 1
                   /\ inv'[i].log[Len(inv'[i].log)].kind = "ifconfig_list"
          /\ (inv'[i].pc = "alias_sudo" /\ inv[i].pc # "alias_sudo")
                => inv[i].pc = "ifconfig" /\ ~AlreadyAliased(i)
          /\ (inv'[i].pc = "alias_add" /\ inv[i].pc # "alias_add")
                => inv[i].pc = "alias_sudo"
      ]_vars

\* C9 witness: the second of two tunnel calls for the same aliased address has
\* ended well without an elevation or an alias command of ensureLoopbackAlias.
C9_Witness ==
    /\ Done(1)
    /\ inv[1].exit = 0
    /\ SecondOfTwo
    /\ AlreadyAliased(1)
    /\ Attempted(1, "ifconfig_list")
    /\ ~Attempted(1, "ifconfig_alias")
    /\ \A n \in 1..Len(inv[1].log) : inv[1].log[n].by = "do_verify_loopback_address"
                                        => inv[1].log[n].kind = "ifconfig_list"

\* No line of the process table holds the ssh marker, the forward flag and the
\* filter of the invocation.
NoLineMatches(i) ==
    \A pid \in DOMAIN procs :
        LET line == PsLine(pid, procs[pid])
        IN  ~ /\ HasLexIn(line, SshBearing)
              /\ HasLexIn(line, DashLBearing)
              /\ Contains(line, SpecificLoopback(FilterIp(inv[i]), FilterPort(inv[i])))

-----------------------------------------------------------------------------
(* Claims C11 to C15 *)

SshFailed(r) ==
    /\ r.pc = "done"
    /\ r.log # <<>>
    /\ r.log[Len(r.log)].kind = "ssh"
    /\ r.log[Len(r.log)].rc # "ok"

CountOf(r, kind) == Cardinality({n \in 1..Len(r.log) : r.log[n].kind = kind})

FlagFirstTunnel ==
    <<"ssh", SP, "-f", SP, "alice@bastion.example.com", SP, "-N", SP, "-L", SP>>
        \o Lo2 \o <<COLON, "5432", COLON>> \o Ext5 \o <<COLON, "5432">>

DoubleBlankTunnel ==
    <<"ssh", SP, SP, "-L", SP, SP>> \o Lo2 \o <<COLON, "5432", COLON>> \o Ext5
        \o <<COLON, "5432", SP, SP, "-N", SP, SP, "-f", SP, SP, "alice@bastion.example.com">>

ReverseFirstTunnel ==
    <<"ssh", SP, "-R", SP, "9000", COLON, "localhost", COLON, "9000", SP, "-L", SP>>
        \o Lo2 \o <<COLON, "5432", COLON>> \o Ext5
        \o <<COLON, "5432", SP, "-N", SP, "-f", SP, "alice@bastion.example.com">>

ParseCommands ==
    {ToolTunnel, OtherTunnel, FlagFirstTunnel, DoubleBlankTunnel, ReverseFirstTunnel,
     InteractiveForward, SshDaemon}

\* Process tables of one or two such processes.
InitParse ==
    /\ procs \in {TableOf(a, b, Absent) : a \in ParseCommands, b \in ParseCommands \cup {Absent}}
    /\ connecting = {}
    /\ aliases = {Lo1, Lo2}
    /\ rules = {}
    /\ inv = [i \in Inv |-> IdleInv]
    /\ prev = NoPrev
    /\ runs = 0
    /\ exits = 0

\* "Terminate SSH tunnels" from the menu, on its own.
NextParse ==
    \/ Start(1, "action_terminate_tunnels", NoConfig)
    \/ ListProcesses(1)
    \/ \E rc \in {"ok", "nonzero"} : PromptForSudo(1, rc)
    \/ Kill(1)

SpecParse == InitParse /\ [][NextParse]_vars

\* What the kill loop takes from a line: the PID and the two host infos, or
\* the exception of the unpacking.
Extraction(line) ==
    IF ParseTunnel(line) # "ok" THEN [error |-> ParseTunnel(line)]
    ELSE [PID |-> PidOf(line), local_host_info |-> HostInfos(line)[1],
          remote_host_info |-> HostInfos(line)[2]]

\* The last position of the run of non-blank lexemes that starts at n.
RECURSIVE TokenEnd(_, _)
TokenEnd(line, n) ==
    IF n + 1 <= Len(line) /\ line[n + 1] # SP THEN TokenEnd(line, n + 1) ELSE n

\* The argument of the first -L of a line (<<>> if there is none).
ForwardArgument(line) ==
    LET flags == {n \in 1..Len(line) : line[n] = "-L" /\ n + 1 <= Len(line) /\ line[n + 1] = SP}
    IN  IF flags = {} THEN <<>>
        ELSE LET n == CHOOSE m \in flags : \A o \in flags : m <= o
                 a == SkipBlanks(line, n + 1)
             IN  IF a > Len(line) THEN <<>> ELSE SubSeq(line, a, TokenEnd(line, a))

ColonsOf(token) == {j \in 1..Len(token) : token[j] = COLON}

\* <ip>:<port>:<rip>:<rport>
IsForwardArgument(token) ==
    /\ Cardinality(ColonsOf(token)) = 3
    /\ LET c1 == CHOOSE j \in ColonsOf(token) : \A o \in ColonsOf(token) : j <= o
           c3 == CHOOSE j \in ColonsOf(token) : \A o \in ColonsOf(token) : j >= o
           c2 == CHOOSE j \in ColonsOf(token) : j # c1 /\ j # c3
       IN  /\ c1 > 1
           /\ c2 = c1 + 2 /\ IsDigits(token[c1 + 1])
           /\ c3 > c2 + 1
           /\ c3 + 1 = Len(token) /\ IsDigits(token[c3 + 1])

\* A line of the shape <pid> ... ssh ... -L <ip>:<port>:<rip>:<rport> ... -f <server> ...
\* (the flags in either order).
WellFormedForward(line) ==
    /\ \E pid \in Pids : \E cmd \in ParseCommands : line = PsLine(pid, cmd)
    /\ \E n \in 1..Len(line) : line[n] = "ssh"
    /\ IsForwardArgument(ForwardArgument(line))
    /\ \E n \in 1..Len(line) :
           line[n] = "-f" /\ n + 1 <= Len(line) /\ line[n + 1] = SP
               /\ SkipBlanks(line, n + 1) <= Len(line)

\* The PID and the endpoints that a line of that shape states.
Stated(line) ==
    LET token == ForwardArgument(line)
        c2 == CHOOSE j \in ColonsOf(token) :
                  Cardinality({o \in ColonsOf(token) : o < j}) = 1
    IN  [PID |-> CHOOSE pid \in Pids : \E cmd \in ParseCommands : line = PsLine(pid, cmd),
         local_host_info |-> SubSeq(token, 1, c2 - 1),
         remote_host_info |-> SubSeq(token, c2 + 1, Len(token))]

\* The lines of tunnel_PIDs that the kill loop has come to.
Reached(r) == {n \in 1..Len(r.tunnel_PIDs) : n <= r.k}

\* C12: from every line of the shape
\* <pid> ... ssh ... -L <ip>:<port>:<rip>:<rport> ... -f <server> ... that the
\* kill loop has come to, it has taken that line's PID, <ip>:<port> as the
\* local and <rip>:<rport> as the remote endpoint.
C12_ExtractsStatedEndpoints ==
    \A i \in Inv : \A n \in Reached(inv[i]) :
        WellFormedForward(inv[i].tunnel_PIDs[n])
            => Extraction(inv[i].tunnel_PIDs[n]) = Stated(inv[i].tunnel_PIDs[n])

\* Tunnel sections that differ in their ssh_options: none, blank, an identity
\* file by flag, a verbosity flag, a jump host, an identity file by -o.
OptionTexts ==
    { <<SP>>,
      <<"-i", SP, "/other/key">>,
      <<"-v">>,
      <<"-J", SP, "jump-inner">>,
      <<"-o", SP, "IdentityFile=/other/key">> }

OptionConfigs == {BaseTunnel} \cup {With(BaseTunnel, "ssh_options", o) : o \in OptionTexts}

InitOptions ==
    /\ procs \in {TableOf(a, Absent, SshDaemon) : a \in {Absent, ToolTunnel}}
    /\ connecting = {}
    /\ aliases \in {{Lo1}, {Lo1, Lo2}}
    /\ rules = {}
    /\ inv = [i \in Inv |-> IdleInv]
    /\ prev = NoPrev
    /\ runs = 0
    /\ exits = 0

\* A tunnel of the menu, on its own.
NextOptions ==
    \/ \E cfg \in OptionConfigs : Start(1, "ssh_tunnel_custom", cfg)
    \/ \E rc \in {"ok", "nonzero"} : PromptForSudo(1, rc)
    \/ ListInterfaces(1)
    \/ AddAlias(1)
    \/ ListProcesses(1)
    \/ Kill(1)
    \/ \E rc \in {"ok", "nonzero"} : RunSsh(1, rc, FALSE)

SpecOptions == InitOptions /\ [][NextOptions]_vars

\* The extra options name an identity file: by -i, or by -o IdentityFile=.
DesignatesIdentity(options) ==
    \E n \in 1..Len(options) : options[n] \in {"-i", "IdentityFile=/other/key"}

\* The option string as the claim composes it.
ComposedOptions(cfg) ==
    LET extra == IF Has(cfg, "ssh_options") THEN Strip(cfg["ssh_options"]) ELSE <<>>
        key == <<"-i", SP>> \o GetOr(cfg, "ssh_key", default_ssh_key)
    IN  IF extra = <<>> THEN key \o <<SP, "-o", SP, "StrictHostKeyChecking=no">>
        ELSE IF DesignatesIdentity(extra) THEN extra
        ELSE key \o <<SP>> \o extra

\* C13: the options of every ssh command that establishTunnel ran are: the
\* default key and the host-key-checking bypass when there are no extra
\* options; the extra options unchanged when they name an identity file; the
\* default key before the extra options otherwise.
C13_OptionComposition ==
    \A i \in Inv : \A n \in 1..Len(inv[i].log) :
        inv[i].log[n].kind = "ssh"
            => SubseqAt(inv[i].log[n].argv, 1,
                        <<"sudo", SP, "ssh", SP>> \o ComposedOptions(inv[i].cfg) \o <<SP, "-Y", SP>>)

\* sudo ssh -i /keys/id -o StrictHostKeyChecking=no -Y
\*     -L 127.0.0.2:5432:10.0.0.5:5432 -N -f alice@bastion.example.com -p 22
ScenarioCommand ==
    <<"sudo", SP, "ssh", SP, "-i", SP, "/keys/id", SP, "-o", SP, "StrictHostKeyChecking=no", SP,
      "-Y", SP, "-L", SP, "127.", "0.0.2", COLON, "5432", COLON, "10.", "0.0.5", COLON, "5432", SP,
      "-N", SP, "-f", SP, "alice", "@", "bastion.example.com", SP, "-p", SP, "22">>

\* C14: with the config {name db, local 127.0.0.2:5432, remote 10.0.0.5:5432,
\* server bastion.example.com, user alice, key /keys/id}, without extra
\* options or ssh port, every ssh command of establishTunnel is ssh (under
\* sudo) with the arguments -i /keys/id -o StrictHostKeyChecking=no -Y
\* -L 127.0.0.2:5432:10.0.0.5:5432 -N -f alice@bastion.example.com -p 22, and
\* a call that ended well ran that command once.
C14_ScenarioCommand ==
    \A i \in Inv :
        (inv[i].action = "ssh_tunnel_custom" /\ inv[i].cfg = BaseTunnel)
            => /\ \A n \in 1..Len(inv[i].log) :
                      inv[i].log[n].kind = "ssh" => inv[i].log[n].argv = ScenarioCommand
               /\ (Done(i) /\ inv[i].exit = 0) => CountOf(inv[i], "ssh") = 1

\* C14 witness: establishTunnel with that config ended well after its ssh command.
C14_Witness ==
    /\ Done(1)
    /\ inv[1].exit = 0
    /\ inv[1].action = "ssh_tunnel_custom"
    /\ inv[1].cfg = BaseTunnel
    /\ LastEntry(1).argv = ScenarioCommand

\* The redirect config has all its variables, and its source address is
\* 127.0.0.1 or no 127.x address.
BadSourceAddress(cfg) ==
    /\ RedirectVars(cfg) = "ok"
    /\ \/ GetVar(cfg, "source_address") = Lo1
       \/ Head(GetVar(cfg, "source_address")) # "127."

\* C15: a redirect whose source address is 127.0.0.1, or does not start with
\* "127.", loads no firewall rule and creates no loopback alias (the
\* interfaces are not even listed), and establishRedirect, once called, ends
\* with the assertion error of the address check.
C15_BadSourceRejected ==
    \A i \in Inv :
        (inv[i].action = "port_redirect_custom" /\ BadSourceAddress(inv[i].cfg))
            => /\ ~Attempted(i, "pfctl_load")
               /\ ~Attempted(i, "ifconfig_alias")
               /\ ~Attempted(i, "ifconfig_list")
               /\ (Done(i) /\ Clean(inv[i])) =>
                      /\ inv[i].exit = 1
                      /\ inv[i].err = IF GetVar(inv[i].cfg, "source_address") = Lo1
                                       THEN "Custom loopback IP is required"
                                       ELSE "Invalid loopback address"

\* C15 witness: a redirect from 127.0.0.1 was rejected while the rule of an
\* earlier redirect stayed active.
C15_Witness ==
    /\ Done(1)
    /\ inv[1].action = "port_redirect_custom"
    /\ GetVar(inv[1].cfg, "source_address") = Lo1
    /\ inv[1].err = "Custom loopback IP is required"
    /\ rules = {RedirectRule(BaseRedirect)}

-----------------------------------------------------------------------------
(* Claims C16 to C20 *)

Notified(r, text) == \E n \in 1..Len(r.notes) : r.notes[n].text = text

\* C16: establishRedirect has notified 'Port Redirection Enabled' only if its
\* firewall-control command exited zero, and when that command exited non-zero
\* the invocation failed.
C16_RedirectSuccessOnlyOnZero ==
    \A i \in Inv :
        /\ Notified(inv[i], "Port Redirection Enabled")
              => \E n \in 1..Len(inv[i].log) :
                     inv[i].log[n].kind = "pfctl_load" /\ inv[i].log[n].rc = "ok"
        /\ (Done(i) /\ Failed(i, "pfctl_load")) => inv[i].exit = 1

\* C17: an establishTunnel call that ended well with a config that carries an
\* exit message has shown that message, and a call that failed has shown none.
C17_TunnelExitMessage ==
    \A i \in Inv :
        (Done(i) /\ inv[i].action = "ssh_tunnel_custom"
                 /\ Truthy(inv[i].cfg, "optional_exit_message"))
            => IF inv[i].exit = 0
               THEN inv[i].shown = EscapesReplaced(inv[i].cfg["optional_exit_message"])
               ELSE inv[i].shown = <<>>

\* C18: when terminateTunnels has returned, the value it returned is the
\* number of processes it matched: 0 without a match, and N for N matches.
C18_ReturnsCount ==
    \A i \in Inv :
        inv[i].returned # NotReturned => inv[i].returned = PyInt(Len(inv[i].tunnel_PIDs))

Privileged == {"kill", "ifconfig_alias", "ssh", "pfctl_load"}

\* C19: every kill, alias, ssh and firewall-load command of an invocation
\* comes after a successful elevation probe of the same invocation, and a
\* failed probe is the last command of its invocation, which ends with exit
\* code 1.
C19_PrivilegeDeniedAborts ==
    \A i \in Inv : \A n \in 1..Len(inv[i].log) :
        /\ inv[i].log[n].kind \in Privileged
              => \E m \in 1..(n - 1) :
                     inv[i].log[m].kind = "sudo_probe" /\ inv[i].log[m].rc = "ok"
        /\ (inv[i].log[n].kind = "sudo_probe" /\ inv[i].log[n].rc # "ok")
              => /\ n = Len(inv[i].log)
                 /\ Done(i)
                 /\ inv[i].exit = 1

\* C19 witness: the elevation before the kills was refused after the tunnels
\* had been listed, and no kill was issued.
C19_Witness ==
    /\ Done(1)
    /\ inv[1].tunnel_PIDs # <<>>
    /\ LastEntry(1).kind = "sudo_probe"
    /\ LastEntry(1).rc # "ok"
    /\ LastEntry(1).by = "do_terminate_tunnels"
    /\ ~Attempted(1, "kill")

\* The commands of the invocation, from the third to the last but one, are
\* the elevation and the kills of do_terminate_tunnels.
KillsBetween(r) ==
    \A n \in 3..(Len(r.log) - 1) :
        /\ r.log[n].by = "do_terminate_tunnels"
        /\ r.log[n].kind = IF n = 3 THEN "sudo_probe" ELSE "kill"

\* C20: when resetAllNetworking has ended with exit code 0 and every command
\* succeeded, no ssh process that forwards a local port is in the process
\* table and no redirect rule is active; its commands were the elevation
\* probe, the process listing and the kill of every listed tunnel, then the
\* firewall reload, after which the alias cleanup was called.
C20_ResetAllOrder ==
    \A i \in Inv :
        (Done(i) /\ inv[i].action = "action_terminate_all" /\ inv[i].exit = 0 /\ Clean(inv[i]))
            => /\ \A pid \in DOMAIN procs : ~IsForward(procs[pid])
               /\ rules = {}
               /\ Len(inv[i].log) >= 3
               /\ inv[i].log[1].kind = "sudo_probe"
               /\ inv[i].log[2].kind = "ps"
               /\ KillsBetween(inv[i])
               /\ \A n \in 1..Len(inv[i].tunnel_PIDs) :
                      KillAttempted(i, PidOf(inv[i].tunnel_PIDs[n]))
               /\ LastEntry(i).kind = "pfctl_reset"
               /\ inv[i].cleanup

\* C20 witness: resetAllNetworking ended well after two kills, with the rule
\* of an earlier redirect active when it started.
C20_Witness ==
    /\ Done(1)
    /\ inv[1].action = "action_terminate_all"
    /\ inv[1].exit = 0
    /\ CountOf(inv[1], "kill") = 2
    /\ prev.action = "port_redirect_custom"
    /\ LoopbackAsserts(GetVar(prev.cfg, "source_address"), FALSE) = "ok"
    /\ rules = {}

-----------------------------------------------------------------------------
(* Claims C21 to C25 *)

\* A tunnel bound to 127.0.0.3:8080 that also asks the server for a remote
\* forward: ssh -L 127.0.0.3:8080:10.0.0.5:5432 -R 127.0.0.2:5432:localhost:5432
\*              -N -f alice@bastion.example.com
RemoteBindTunnel ==
    <<"ssh", SP, "-L", SP>> \o Lo3 \o <<COLON, "8080", COLON>> \o Ext5 \o <<COLON, "5432", SP>>
        \o <<"-R", SP>> \o Lo2 \o <<COLON, "5432", COLON, "localhost", COLON, "5432", SP>>
        \o <<"-N", SP, "-f", SP, "alice", "@", "bastion.example.com">>

FilterCommands == {ToolTunnel, OtherTunnel, RemoteBindTunnel}

\* Process tables of one or two tunnels, the alias of the base config in place.
InitFilter ==
    /\ procs \in {TableOf(a, b, Absent) : a \in FilterCommands, b \in FilterCommands \cup {Absent}}
    /\ connecting = {}
    /\ aliases = {Lo1, Lo2}
    /\ rules = {}
    /\ inv = [i \in Inv |-> IdleInv]
    /\ prev = NoPrev
    /\ runs = 0
    /\ exits = 0

\* A tunnel of the menu for 127.0.0.2:5432, the local port given or defaulted.
NextFilter ==
    \/ \E cfg \in {BaseTunnel, Without(BaseTunnel, {"local_port"})} :
           Start(1, "ssh_tunnel_custom", cfg)
    \/ \E rc \in {"ok", "nonzero"} : PromptForSudo(1, rc)
    \/ ListInterfaces(1)
    \/ ListProcesses(1)
    \/ Kill(1)
    \/ \E rc \in {"ok", "nonzero"} : RunSsh(1, rc, FALSE)

SpecFilter == InitFilter /\ [][NextFilter]_vars

\* The line is of a process whose -L argument binds ip:port (any port when
\* port is None).
LocalBindIs(line, ip, port) ==
    SubseqAt(ForwardArgument(line), 1,
             ip \o <<COLON>> \o (IF port # None THEN port \o <<COLON>> ELSE <<>>))

\* C21: every line that terminateTunnels(address, port) selected, and every
\* process it killed, is a tunnel whose local bind endpoint is address:port;
\* and terminateTunnels(address), the port omitted, selects from the process
\* table only tunnels whose local bind address is that address.
C21_SelectsLocalEndpointOnly ==
    /\ \A i \in Inv :
           FilterIp(inv[i]) # None
               => \A n \in 1..Len(inv[i].tunnel_PIDs) :
                      LocalBindIs(inv[i].tunnel_PIDs[n], FilterIp(inv[i]), FilterPort(inv[i]))
    /\ \A ip \in {Lo2, Lo3} :
           LET selected == TunnelPIDs(procs, ip, None)
           IN  \A n \in 1..Len(selected) : LocalBindIs(selected[n], ip, None)

\* The n-th command of the invocation is of that kind and succeeded.
Succeeded(r, n, kind) == r.log[n].kind = kind /\ r.log[n].rc = "ok"

\* C22: an ssh command of establishTunnel is the last command of its
\* invocation and comes after, in this order: the checks of the config, which
\* passed; the listing of the interfaces, with the local address found or its
\* alias added; the listing of the processes; and a successful kill of every
\* process that the listing matched for local_address:local_port.
C22_StepsInOrder ==
    \A i \in Inv : \A s \in 1..Len(inv[i].log) :
        inv[i].log[s].kind = "ssh"
            => /\ s = Len(inv[i].log)
               /\ TunnelAsserts(inv[i].cfg) = "ok"
               /\ LoopbackAsserts(inv[i].cfg["local_address"], FALSE) = "ok"
               /\ Strip(inv[i].cfg["local_address"]) \in aliases
               /\ Cardinality(TunnelsOn(procs, inv[i].cfg["local_address"],
                                        LocalPort(inv[i].cfg))) <= 1
               /\ \E a \in 1..(s - 1) : \E p \in (a + 1)..(s - 1) :
                      /\ Succeeded(inv[i], a, "ifconfig_list")
                      /\ \A m \in 1..(s - 1) :
                             inv[i].log[m].kind = "ifconfig_alias"
                                 => m > a /\ m < p /\ inv[i].log[m].rc = "ok"
                      /\ Succeeded(inv[i], p, "ps")
                      /\ \A n \in 1..Len(inv[i].tunnel_PIDs) :
                             LineSelected(inv[i].tunnel_PIDs[n],
                                          SpecificLoopback(inv[i].cfg["local_address"],
                                                           LocalPort(inv[i].cfg)))
                      /\ \A n \in 1..Len(inv[i].tunnel_PIDs) :
                             \E k \in (p + 1)..(s - 1) :
                                 /\ Succeeded(inv[i], k, "kill")
                                 /\ inv[i].log[k].argv = KillCmd(PidOf(inv[i].tunnel_PIDs[n]))

\* C22 witness: establishTunnel ended well with its ssh command after it had
\* killed two tunnels of its endpoint.
C22_Witness ==
    /\ Done(1)
    /\ inv[1].exit = 0
    /\ LastEntry(1).kind = "ssh"
    /\ CountOf(inv[1], "kill") = 2
    /\ Cardinality(TunnelsOn(procs, inv[1].cfg["local_address"], LocalPort(inv[1].cfg))) = 1

\* C23: an alias command of ensureLoopbackAlias comes right after a successful
\* elevation of ensureLoopbackAlias that follows a listing without the
\* address; it is the only one of its invocation, it names the configured
\* loopback interface, its address argument is exactly the requested address,
\* and once it has succeeded the address is bound to the interface.
C23_AliasAddsRequestedAddress ==
    \A i \in Inv : \A n \in 1..Len(inv[i].log) :
        inv[i].log[n].kind = "ifconfig_alias"
            => /\ n >= 3
               /\ Succeeded(inv[i], n - 2, "ifconfig_list")
               /\ Succeeded(inv[i], n - 1, "sudo_probe")
               /\ inv[i].log[n - 1].by = "do_verify_loopback_address"
               /\ CountOf(inv[i], "ifconfig_alias") = 1
               /\ SubseqAt(inv[i].log[n].argv, 1,
                           <<"sudo", SP, "ifconfig", SP>> \o loopback_interface \o <<SP, "alias", SP>>)
               /\ AliasArgument(inv[i].log[n].argv) = Strip(LoopbackArg(inv[i]))
               /\ inv[i].log[n].rc = "ok" => Strip(LoopbackArg(inv[i])) \in aliases

\* establishTunnel with a config that has a remote port and no local port.
LocalPortDefaulted(r) ==
    /\ r.action = "ssh_tunnel_custom"
    /\ ~Truthy(r.cfg, "local_port")
    /\ TunnelAsserts(r.cfg) = "ok"

\* -L <local_address>:<remote_port>:<remote_ip>:<remote_port>
ForwardWithRemotePort(cfg) ==
    <<SP, "-L", SP>> \o cfg["local_address"] \o <<COLON>> \o cfg["remote_port"] \o <<COLON>>
        \o cfg["remote_ip"] \o <<COLON>> \o cfg["remote_port"] \o <<SP>>

\* C24: when the config has no local port, the process listing of
\* establishTunnel selects with the filter local_address:remote_port, and its
\* ssh command forwards local_address:remote_port to remote_ip:remote_port.
C24_LocalPortDefaultsToRemote ==
    [][\A i \in Inv :
          LocalPortDefaulted(inv[i])
              => /\ (inv[i].pc = "ps" /\ inv'[i].pc # "ps")
                       => inv'[i].tunnel_PIDs =
                              TunnelPIDs(procs, inv[i].cfg["local_address"], inv[i].cfg["remote_port"])
                 /\ (inv[i].pc = "ssh" /\ inv'[i].pc # "ssh")
                       => Contains(inv'[i].log[Len(inv'[i].log)].argv,
                                   ForwardWithRemotePort(inv[i].cfg))
      ]_vars

\* C24 witness: establishTunnel without a local port killed the tunnel of
\* local_address:remote_port, left a tunnel with that address in its remote
\* endpoint alone, and ended well with its ssh command.
C24_Witness ==
    /\ Done(1)
    /\ inv[1].exit = 0
    /\ LocalPortDefaulted(inv[1])
    /\ CountOf(inv[1], "kill") = 1
    /\ \E pid \in DOMAIN procs : procs[pid] = OtherTunnel
    /\ Contains(LastEntry(1).argv, ForwardWithRemotePort(inv[1].cfg))

\* The errors with which the checks of establishTunnel reject a config.
ValidationErrors ==
    {RequiredInOrder[n][2] : n \in 1..Len(RequiredInOrder)}
        \cup {"Error: Loopback port not provided",
              "Error: SSH server is a loopback IP, and the port is left at 22",
              "No loopback address provided", "Invalid loopback address",
              "Custom loopback IP is required"}

ValidationFailed(r) == r.err \in ValidationErrors

\* A required field is missing, or the local address is 127.0.0.1 or no
\* 127.x address.
MissingOrBadAddress(cfg) ==
    \/ MissingFields(cfg) # {}
    \/ LocalPort(cfg) = None
    \/ cfg["local_address"] = Lo1
    \/ Head(cfg["local_address"]) # "127."

\* C25: every step of an establishTunnel call that fails validation, or whose
\* config lacks a required field or has a local address that is 127.0.0.1 or
\* no 127.x address, leaves the process table, the loopback aliases and the
\* firewall rules as they are, and the call runs no command but the
\* elevation probe it starts with: no kill, no alias command, no ssh command.
C25_RejectedConfigFrame ==
    [][\A i \in Inv :
          (/\ inv'[i] # inv[i]
           /\ inv'[i].action = "ssh_tunnel_custom"
           /\ ValidationFailed(inv'[i]) \/ MissingOrBadAddress(inv'[i].cfg))
              => /\ UNCHANGED <<procs, connecting, aliases, rules>>
                 /\ Len(inv'[i].log) <= 1
                 /\ \A n \in 1..Len(inv'[i].log) : inv'[i].log[n].kind = "sudo_probe"
      ]_vars

\* C25 witness: establishTunnel rejected a 127.x ssh server on the default
\* port 22 while a tunnel of its local endpoint was running and the alias of
\* its local address was missing; the tunnel runs and the alias is missing.
C25_Witness ==
    /\ Done(1)
    /\ inv[1].action = "ssh_tunnel_custom"
    /\ inv[1].err = "Error: SSH server is a loopback IP, and the port is left at 22"
    /\ TunnelsOn(procs, inv[1].cfg["local_address"], LocalPort(inv[1].cfg)) # {}
    /\ inv[1].cfg["local_address"] \notin aliases
    /\ CountOf(inv[1], "sudo_probe") = Len(inv[1].log)

-----------------------------------------------------------------------------
(* Claims C26 to C30 *)

\* C26: establishTunnel with a 127.x.x.x ssh server and ssh port 22, whether
\* the port is absent from the config or written in it as 22, is rejected by
\* the loopback guard: it lists no interfaces and no processes, runs no ssh
\* command and, its elevation probe having succeeded, ends with the error of
\* the guard.
C26_GuardWhateverTheSupply ==
    \A i \in Inv :
        (inv[i].action = "ssh_tunnel_custom" /\ Port22Loopback(inv[i].cfg)
            /\ LocalPort(inv[i].cfg) # None)
            => /\ ~Attempted(i, "ifconfig_list")
               /\ ~Attempted(i, "ps")
               /\ ~Attempted(i, "ssh")
               /\ (Done(i) /\ Clean(inv[i]))
                      => inv[i].err = "Error: SSH server is a loopback IP, and the port is left at 22"

\* Two invocations of the plugin run side by side (two menu items clicked in
\* quick succession): each is a process of its own, and their commands
\* interleave in any order.  The alias of the base config is in place.
InitConcurrent ==
    /\ procs \in {TableOf(a, Absent, c) : a \in {Absent, ToolTunnel}, c \in {OtherTunnel, SshDaemon}}
    /\ connecting = {}
    /\ aliases = {Lo1, Lo2}
    /\ rules = {}
    /\ inv = [i \in Inv |-> IdleInv]
    /\ prev = NoPrev
    /\ runs = 0
    /\ exits = 0

NextConcurrent ==
    \E i \in Inv :
        \/ Start(i, "ssh_tunnel_custom", BaseTunnel)
        \/ Start(i, "action_terminate_tunnels", NoConfig)
        \/ \E rc \in {"ok", "nonzero"} : PromptForSudo(i, rc)
        \/ ListInterfaces(i)
        \/ ListProcesses(i)
        \/ Kill(i)
        \/ \E rc \in {"ok", "nonzero"} : RunSsh(i, rc, FALSE)

SpecConcurrent == InitConcurrent /\ [][NextConcurrent]_vars

\* C27: at every kill command of terminateTunnels, its PID is in the process
\* table, on the line that the listing of the invocation selected.
C27_KillTargetsListedProcess ==
    [][\A i \in Inv :
          (inv[i].pc = "kill" /\ inv'[i] # inv[i])
              => LET line == inv[i].tunnel_PIDs[inv[i].k]
                 IN  /\ PidOf(line) \in DOMAIN procs
                     /\ PsLine(PidOf(line), procs[PidOf(line)]) = line
      ]_vars

\* C28: when two establishTunnel calls with the same config have both ended,
\* in whatever order their steps were taken, at most one ssh tunnel process is
\* bound to the config's local endpoint.
C28_AtMostOneTunnel ==
    (/\ Done(1) /\ Done(2)
     /\ inv[1].action = "ssh_tunnel_custom" /\ inv[2].action = "ssh_tunnel_custom"
     /\ inv[1].cfg = inv[2].cfg)
        => Cardinality(TunnelsOn(procs, inv[1].cfg["local_address"], LocalPort(inv[1].cfg))) <= 1

\* The [BitBar.networking] sections of logichub_tools.ini: section name -> config.
\* The files differ in what the sections "db" and "web" hold.
SectionNames == {"db", "web"}

ConfigFiles ==
    { [db |-> BaseTunnel, web |-> BaseRedirect],
      [db |-> With(BaseTunnel, "ssh_server", Lo9), web |-> With(BaseRedirect, "source_address", Lo1)],
      [db |-> BaseTunnel, web |-> Without(BaseRedirect, {"source_address"})],
      [db |-> BaseTunnel, web |-> With(BaseRedirect, "target_port", <<SP>>)],
      [db |-> BaseTunnel, web |-> Without(BaseRedirect, {"name"})],
      [db |-> BaseTunnel] }

\* Action ids: re.sub(r'\W', "_", name) for the fixed menu items, and
\* f"ssh_tunnel_custom_{_var}" / f"port_redirect_custom_{_var}" for the sections.
StaticIds ==
    {<<"Terminate_SSH_tunnels">>, <<"Terminate_Local_Port_Redirection">>, <<"Terminate_All">>}

IdPrefix(cfg) ==
    CASE cfg["type"] = <<"ssh">> -> "ssh_tunnel_custom_"
      [] cfg["type"] = <<"redirect">> -> "port_redirect_custom_"
      [] OTHER -> "none"

\* check_for_custom_networking_configs: the sections of type ssh and redirect.
CustomIds(file) ==
    {<<IdPrefix(file[s]), s>> : s \in {t \in DOMAIN file : IdPrefix(file[t]) # "none"}}

\* ConstructorError for a make_action that takes a section without a name.
ConstructorError_AnyName(file) == "ok"

\* BitBar.__init__: make_action concatenates the menu prefix and the name of
\* every section; a section without a name has the name None, and the
\* concatenation raises TypeError.
ConstructorError(file) ==
    IF \E s \in DOMAIN file : IdPrefix(file[s]) # "none" /\ ~Has(file[s], "name")
    THEN "TypeError" ELSE "ok"

\* bar.action_list once the constructor is through.
ActionList(file) == StaticIds \cup CustomIds(file)

\* The method an action id is registered with.
ActionOf(id) ==
    CASE id = <<"Terminate_SSH_tunnels">> -> "action_terminate_tunnels"
      [] id = <<"Terminate_Local_Port_Redirection">> -> "action_terminate_port_redirection"
      [] id = <<"Terminate_All">> -> "action_terminate_all"
      [] id[1] = "ssh_tunnel_custom_" -> "ssh_tunnel_custom"
      [] OTHER -> "port_redirect_custom"

\* re.sub('^port_redirect_custom_', '', sys.argv[1]), and the same for tunnels.
ConfigName(id) == id[2]

\* The call of the requested action up to its first command.  The custom
\* actions look their section up first.
RunAction(r, file) ==
    LET action == ActionOf(r.argv1)
        begun(cfg) == [Begin(action, cfg) EXCEPT !.argv1 = r.argv1, !.action_list = r.action_list]
    IN  IF action \in {"ssh_tunnel_custom", "port_redirect_custom"}
        THEN IF ConfigName(r.argv1) \notin DOMAIN file
             THEN displayNotificationError([r EXCEPT !.action = action], "config not found")
             ELSE begun(file[ConfigName(r.argv1)])
        ELSE begun(NoConfig)

\* main(): the constructor, the lookup of the requested action, its call.
MainResult(file, requested) ==
    LET r == [IdleInv EXCEPT !.argv1 = requested]
    IN  IF ConstructorError(file) # "ok" THEN Uncaught(r, ConstructorError(file))
        ELSE LET bar == [r EXCEPT !.action_list = ActionList(file)]
             IN  IF requested \notin bar.action_list THEN Raise(bar, "KeyError")
                 ELSE RunAction(bar, file)

\* The ids a user may hand over: those of the menu, among them those of a
\* menu that was drawn from another config file, and one of no menu.
RequestedIds ==
    StaticIds \cup {<<prefix, s>> : prefix \in {"ssh_tunnel_custom_", "port_redirect_custom_"},
                                   s \in SectionNames}
              \cup {<<"no_such_action">>}

\* The plugin is started with an action id, the config file being `file`.
Main(i, file, requested) ==
    /\ inv[i].pc \in {"idle", "done"}
    /\ runs < MaxRuns
    /\ inv' = [inv EXCEPT ![i] = MainResult(file, requested)]
    /\ prev' = IF i = 1 /\ inv[i].pc = "done" THEN Summary(inv[i]) ELSE prev
    /\ runs' = runs + 1
    /\ UNCHANGED <<procs, connecting, aliases, rules, exits>>

InitDispatch ==
    /\ procs \in {TableOf(a, Absent, SshDaemon) : a \in {Absent, ToolTunnel}}
    /\ connecting = {}
    /\ aliases = {Lo1, Lo2}
    /\ rules = {}
    /\ inv = [i \in Inv |-> IdleInv]
    /\ prev = NoPrev
    /\ runs = 0
    /\ exits = 0

NextDispatch ==
    \/ \E file \in ConfigFiles : \E requested \in RequestedIds : Main(1, file, requested)
    \/ \E rc \in {"ok", "nonzero"} : PromptForSudo(1, rc)
    \/ ListInterfaces(1)
    \/ ListProcesses(1)
    \/ Kill(1)
    \/ \E rc \in {"ok", "nonzero"} : RunSsh(1, rc, FALSE)
    \/ \E rc \in {"ok", "nonzero"} : LoadRedirect(1, rc)
    \/ \E rc \in {"ok", "nonzero"} : ResetRedirect(1, rc)

SpecDispatch == InitDispatch /\ [][NextDispatch]_vars

\* port_redirect_custom was entered with a config that lacks one of
\* source_address, source_port, target_address, target_port, or has it blank.
RedirectVarMissing(r) ==
    /\ r.action = "port_redirect_custom"
    /\ Has(r.cfg, "type")
    /\ r.cfg["type"] = <<"redirect">>
    /\ \E var \in {"source_address", "source_port", "target_address", "target_port"} :
           ~Has(r.cfg, var) \/ Strip(r.cfg[var]) = <<>>

\* The invocation ended with exit code 1 and an error notification, and ran
\* no command.
RejectedBeforeProbe(r) ==
    /\ r.pc = "done"
    /\ r.exit = 1
    /\ r.notes # <<>>
    /\ r.notes[Len(r.notes)].level = "error"
    /\ r.log = <<>>

C30_NotValidIffUnregistered ==
    \A i \in Inv :
        inv[i].action_list # {}
            => (inv[i].err = "Not a valid action" <=> inv[i].argv1 \notin inv[i].action_list)

\* C30 witness: a registered redirect action ran its elevation probe and then
\* failed on its source address, which is the error reported.
C30_Witness ==
    /\ Done(1)
    /\ inv[1].argv1 \in inv[1].action_list
    /\ inv[1].action = "port_redirect_custom"
    /\ Len(inv[1].log) = 1
    /\ inv[1].exit = 1
    /\ inv[1].err = "Custom loopback IP is required"

====
